---- MODULE Spec2Model ----
(***************************************************************************)
(* VegCA: cellular automaton of plant functional types on a looped raster  *)
(* grid (landlab/components/vegetation_ca/CA_Veg_new.py).                   *)
(*                                                                         *)
(* Numbers.  Probabilities, water stress and live index are held in        *)
(* hundredths (0.35 is 35).  A probability that the code obtains by a      *)
(* division is the record [n |-> num, d |-> den] standing for the exact    *)
(* value n / (100 * d), d > 0; comparisons cross-multiply, so no rounding  *)
(* takes place.  The float values nan, +inf and -inf that numpy produces   *)
(* for 0/0, x/0 and the mean of an empty array are the records NaN, PInf   *)
(* and NInf.  Ages and time_elapsed are integers (years).                  *)
(***************************************************************************)
EXTENDS Integers, Sequences, FiniteSets, TLC

VARIABLES
    params,                \* constructor arguments kept on self (_Pemaxg, ...)
    at_cell,               \* grid.at_cell: the names of the fields on the grid
    VegType,               \* grid field 'vegetation__plant_functional_type'
    plant__age,            \* grid field 'plant__age'
    CumWS,                 \* grid field 'soil_moisture__water_stress_cumulative'
    live_leaf_area_index,  \* grid field 'vegetation__live_leaf_area_index'
    boolean_vegetated,     \* grid field 'vegetation__boolean_vegetated', once present
    live_index,            \* self._live_index as bound by the last update
    bare_cells,            \* self._bare_cells
    Established,           \* self._Established
    plant_cells,           \* self._plant_cells
    Mortified,             \* self._Mortified
    call,                  \* arguments and random draws of the last update call
    pre,                   \* the label and age fields on entry to the last update
    mat,                   \* self._VegType / self._tp as they stood after maturation
    est,                   \* self._VegType / self._tp as they stood after establishment
    PM,                    \* mortality probability computed by the last update
    outcome,               \* "constructed", "ok" (update returned), "error" (update
                           \* raised); "grid" (no component yet), "config_error"
                           \* (the constructor raised)
    steps                  \* number of update calls made so far

vars == <<params, at_cell, VegType, plant__age, CumWS, live_leaf_area_index,
          boolean_vegetated, live_index, bare_cells, Established, plant_cells,
          Mortified, call, pre, mat, est, PM, outcome, steps>>

----------------------------------------------------------------------------
(* Bounds of the exploration *)

MaxSteps == 2            \* update calls per behaviour

----------------------------------------------------------------------------
(* Plant functional types *)

GRASS == 0
SHRUB == 1
TREE == 2
BARE == 3
SHRUBSEEDLING == 4
TREESEEDLING == 5

Labels == {GRASS, SHRUB, TREE, BARE, SHRUBSEEDLING, TREESEEDLING}

----------------------------------------------------------------------------
(* The grid: Shape[1] rows by Shape[2] columns of cells, looped at the edges *)

Shape == <<3, 3>>

number_of_cells == Shape[1] * Shape[2]

Cells == 0 .. (number_of_cells - 1)

RowOf(c) == c \div Shape[2]

ColOf(c) == c % Shape[2]

\* the cell reached from c by the offset <<dr, dc>>, wrapping around the edges
LoopedCell(c, off) ==
    ((RowOf(c) + off[1] + 2 * Shape[1]) % Shape[1]) * Shape[2]
        + ((ColOf(c) + off[2] + 2 * Shape[2]) % Shape[2])

FirstRingOffsets ==
    << <<0, 1>>, <<1, 0>>, <<0, -1>>, <<-1, 0>>,
       <<1, 1>>, <<1, -1>>, <<-1, -1>>, <<-1, 1>> >>

SecondRingOffsets ==
    << <<0, 2>>, <<1, 2>>, <<2, 2>>, <<2, 1>>, <<2, 0>>, <<2, -1>>,
       <<2, -2>>, <<1, -2>>, <<0, -2>>, <<-1, -2>>, <<-2, -2>>, <<-2, -1>>,
       <<-2, 0>>, <<-2, 1>>, <<-2, 2>>, <<-1, 2>> >>

\* one row of neighbour ids per cell, in the order of the offsets
get_looped_cell_neighbor_list ==
    [c \in Cells |->
        [i \in 1 .. Len(FirstRingOffsets) |->
            LoopedCell(c, FirstRingOffsets[i])]]

get_second_ring_looped_cell_neighbor_list ==
    [c \in Cells |->
        [i \in 1 .. Len(SecondRingOffsets) |->
            LoopedCell(c, SecondRingOffsets[i])]]

----------------------------------------------------------------------------
(* Constructor arguments *)

DefaultParams ==
    [method |-> "Grid",
     Pemaxg |-> 35, ING |-> 2, ThetaGrass |-> 62, PmbGrass |-> 5,
     Pemaxsh |-> 20, ThetaShrub |-> 80, PmbShrub |-> 1, tpmaxShrub |-> 600,
     Pemaxtr |-> 25, ThetaTree |-> 72, PmbTree |-> 1, tpmaxTree |-> 350,
     ThetaShrubSeedling |-> 64, PmbShrubSeedling |-> 3,
     tpmaxShrubSeedling |-> 18,
     ThetaTreeSeedling |-> 64, PmbTreeSeedling |-> 3,
     tpmaxTreeSeedling |-> 18]

\* a caller's choice of keyword arguments: certain tree establishment next to
\* vigorous trees, no background grass mortality, short-lived woody plants
ShortLivedParams ==
    [DefaultParams EXCEPT !.Pemaxtr = 100, !.PmbGrass = 0,
                          !.tpmaxShrub = 2, !.tpmaxTree = 2,
                          !.tpmaxShrubSeedling = 1, !.tpmaxTreeSeedling = 1]

ParamChoices == {DefaultParams, ShortLivedParams}

----------------------------------------------------------------------------
(* Construction: VegCA.__init__ *)

\* lines 83-91
input_var_names ==
    {"soil_moisture__water_stress_cumulative",
     "vegetation__plant_functional_type"}

output_var_names == {"vegetation__live_leaf_area_index", "plant__age"}

Zeros == [c \in Cells |-> 0]

FieldOf(seq) == [c \in Cells |-> seq[c + 1]]

\* the i-th (1-based) element of a set of cells in ascending order: the order
\* in which np.where and boolean-mask indexing enumerate the selected cells
Nth(S, i) == CHOOSE c \in S : Cardinality({d \in S : d < c}) = i - 1

\* position (1-based) of cell c among the cells of S in ascending order
Rank(S, c) == Cardinality({d \in S : d < c}) + 1

CellsWith(V, label) == {c \in Cells : V[c] = label}

\* np.all(field): every entry is nonzero
np_all(field) == \A c \in Cells : field[c] # 0

\* lines 205-207: a field with any zero entry (a fresh field, any Grass cell)
\* is replaced by np.random.randint(0, 6, number_of_cells)
InitialVegType(supplied, rnd) == IF ~ np_all(supplied) THEN rnd ELSE supplied

\* lines 210-214: trees and shrubs receive a random age below their maximum age
InitialAge(V, treeAge, shrubAge) ==
    [c \in Cells |-> IF V[c] = TREE THEN treeAge
                     ELSE IF V[c] = SHRUB THEN shrubAge ELSE 0]

\* lines 215-216: VegType[tp[VegType == X] < cap] = seedling.  The mask has one
\* entry per cell labelled X, in ascending cell order, and is applied to
\* VegType from cell 0 on: cell i-1 is relabelled when the i-th X cell is young.
\* A numpy that rejects a mask shorter than the array raises here instead and
\* leaves no component behind; the constructed states are those of a numpy
\* that accepts it.
MaskRelabel(V, tp, X, cap, seedling) ==
    LET S == CellsWith(V, X)
    IN  [c \in Cells |-> IF c + 1 <= Cardinality(S) /\ tp[Nth(S, c + 1)] < cap
                         THEN seedling ELSE V[c]]

ConstructedVegType(V, tp, P) ==
    MaskRelabel(MaskRelabel(V, tp, TREE, P.tpmaxTreeSeedling, TREESEEDLING),
                tp, SHRUB, P.tpmaxShrubSeedling, SHRUBSEEDLING)

\* outcomes of np.random.randint(0, 6, number_of_cells) explored
RandomLabelDraws ==
    { FieldOf(<<SHRUB, TREE, BARE, GRASS, BARE, SHRUB, BARE, TREE, GRASS>>),
      FieldOf(<<TREE, SHRUB, GRASS, TREESEEDLING, BARE, BARE, SHRUB,
                SHRUBSEEDLING, BARE>>) }

\* label fields found on the grid at construction: a fresh field of zeros, a
\* single Tree among Bare cells, an all-Bare grid, and a Bare gap in a stand
\* of trees
SuppliedFields ==
    { Zeros,
      FieldOf(<<BARE, BARE, BARE, BARE, TREE, BARE, BARE, BARE, BARE>>),
      FieldOf(<<BARE, BARE, BARE, BARE, BARE, BARE, BARE, BARE, BARE>>),
      FieldOf(<<TREE, TREE, TREE, TREE, BARE, TREE, TREE, TREE, TREE>>) }

\* outcomes <<tree age, shrub age>> of the np.random.randint age draws
\* explored: two below tpmaxTree and tpmaxShrub for each choice of parameters
AgeDraws(P) ==
    IF P.tpmaxTree <= 2 THEN { <<0, 1>>, <<1, 0>> }
    ELSE { <<17, 500>>, <<200, 17>> }

\* cumulative water stress fields (hundredths) written by the soil moisture
\* component between updates
WaterStressFields ==
    { Zeros, FieldOf(<<0, 90, 30, 70, 0, 100, 65, 50, 10>>) }

\* a random stream that yields v at every position
ConstStream(v) == [i \in 1 .. number_of_cells |-> v]

\* value n / (100 * d), and the float specials
Fin(n, d) == [k |-> "fin", n |-> n, d |-> d]

NaN == [k |-> "nan", n |-> 0, d |-> 1]

PInf == [k |-> "pinf", n |-> 0, d |-> 1]

NInf == [k |-> "ninf", n |-> 0, d |-> 1]

NoCall ==
    [time_elapsed |-> 0, Edit_VegCov |-> FALSE,
     Select_PFT_E |-> ConstStream(GRASS),
     R_Est |-> ConstStream(0), R_Mor |-> ConstStream(0)]

\* lines 195-217: the fields of the grid when the constructor returns
ConstructedFields(P, supplied, rnd, ages, ws) ==
    LET V0 == InitialVegType(supplied, rnd)
        tp0 == InitialAge(V0, ages[1], ages[2])
    IN  [at_cell |-> input_var_names \cup output_var_names,
         VegType |-> ConstructedVegType(V0, tp0, P),
         plant__age |-> tp0,
         CumWS |-> ws]

Constructed(P, supplied, rnd, ages, ws) ==
    \E g \in {ConstructedFields(P, supplied, rnd, ages, ws)} :
        /\ params = P
        /\ at_cell = g.at_cell
        /\ VegType = g.VegType
        /\ plant__age = g.plant__age
        /\ CumWS = g.CumWS
        /\ live_leaf_area_index = Zeros
        /\ boolean_vegetated = [present |-> FALSE, value |-> Zeros]
        /\ live_index = Zeros
        /\ bare_cells = {}
        /\ Established = {}
        /\ plant_cells = {}
        /\ Mortified = {}
        /\ call = NoCall
        /\ pre = [VegType |-> g.VegType, tp |-> g.plant__age]
        /\ mat = [VegType |-> g.VegType, tp |-> g.plant__age]
        /\ est = [VegType |-> g.VegType, tp |-> g.plant__age]
        /\ PM = [c \in Cells |-> Fin(0, 1)]
        /\ outcome = "constructed"
        /\ steps = 0

Init ==
    \E P \in ParamChoices, supplied \in SuppliedFields,
       rnd \in RandomLabelDraws :
    \E ages \in AgeDraws(P) :
        /\ ages[1] < P.tpmaxTree
        /\ ages[2] < P.tpmaxShrub
        /\ Constructed(P, supplied, rnd, ages, Zeros)

----------------------------------------------------------------------------
(* Float arithmetic used by update *)

\* x / m for an integer m >= 0 (numpy float division: x/0 is +-inf, 0/0 is nan)
Divide(x, m) ==
    IF x.k # "fin" THEN x
    ELSE IF m = 0
         THEN (IF x.n > 0 THEN PInf ELSE IF x.n < 0 THEN NInf ELSE NaN)
         ELSE Fin(x.n, x.d * m)

\* faulty variant: the minimum skips nan, as np.nanmin and np.fmin do
amin_SkipsNan(x, y) ==
    IF x.k = "nan" THEN y
    ELSE IF x.k = "pinf" THEN y
    ELSE IF x.k = "ninf" THEN NInf
    ELSE IF x.n * y.d <= y.n * x.d THEN x ELSE y

\* np.amin of the two-row stack (x, y), y finite: nan propagates
amin(x, y) ==
    IF x.k = "nan" THEN NaN
    ELSE IF x.k = "pinf" THEN y
    ELSE IF x.k = "ninf" THEN NInf
    ELSE IF x.n * y.d <= y.n * x.d THEN x ELSE y

\* np.greater_equal(p, r) for a draw r in hundredths: False on nan
greater_equal(p, r) ==
    IF p.k = "nan" THEN FALSE
    ELSE IF p.k = "pinf" THEN TRUE
    ELSE IF p.k = "ninf" THEN FALSE
    ELSE p.n >= r * p.d

RECURSIVE SumTo(_, _)
SumTo(f, j) == IF j = 0 THEN 0 ELSE f[j] + SumTo(f, j - 1)

\* field[ring]: the row of field values at the neighbour ids of one cell
Take(field, ring) == [j \in DOMAIN ring |-> field[ring[j]]]

\* lines 329-336, one row of Arr
count(Arr, value) ==
    SumTo([j \in DOMAIN Arr |-> IF Arr[j] = value THEN 1 ELSE 0], Len(Arr))

\* lines 339-346, one row of VegType and WS
WS_PFT(VegTypeRow, PlantType, WS) ==
    SumTo([j \in DOMAIN WS |-> IF VegTypeRow[j] = PlantType THEN WS[j] ELSE 0],
          Len(WS))

----------------------------------------------------------------------------
(* update: age advance and maturation, lines 239-251 *)

\* faulty variant: the age advance ignores time_elapsed and adds the default step of 1
AdvanceAge_DefaultStep(tp, time_elapsed) == [c \in Cells |-> tp[c] + 1]

AdvanceAge(tp, time_elapsed) == [c \in Cells |-> tp[c] + time_elapsed]

\* faulty variant: seedlings mature one year late (tp - 1 > cap)
Matured_Late(V, tp, seedling, cap) ==
    {c \in Cells : V[c] = seedling /\ tp[c] - 1 > cap}

\* faulty variant: seedlings mature on reaching the cap (>= for >)
Matured_AtCap(V, tp, seedling, cap) ==
    {c \in Cells : V[c] = seedling /\ tp[c] >= cap}

\* seedlings of one kind whose advanced age exceeds the seedling cap
Matured(V, tp, seedling, cap) ==
    {c \in Cells : V[c] = seedling /\ tp[c] > cap}

matured_shrubs(V, tp, P) == Matured(V, tp, SHRUBSEEDLING, P.tpmaxShrubSeedling)

matured_trees(V, tp, P) == Matured(V, tp, TREESEEDLING, P.tpmaxTreeSeedling)

\* faulty variant: the two relabelling lines carry each other's adult label
VegTypeAfterMaturation_Swapped(V, tp, P) ==
    [c \in Cells |-> IF c \in matured_trees(V, tp, P) THEN SHRUB
                     ELSE IF c \in matured_shrubs(V, tp, P) THEN TREE
                     ELSE V[c]]

VegTypeAfterMaturation(V, tp, P) ==
    [c \in Cells |-> IF c \in matured_trees(V, tp, P) THEN TREE
                     ELSE IF c \in matured_shrubs(V, tp, P) THEN SHRUB
                     ELSE V[c]]

AgeAfterMaturation(V, tp, P) ==
    [c \in Cells |->
        IF c \in matured_shrubs(V, tp, P) \cup matured_trees(V, tp, P)
        THEN 0 ELSE tp[c]]

----------------------------------------------------------------------------
(* update: establishment, lines 254-285 *)

\* line 254: plant live index = 1 - WS
LiveIndex(ws) == [c \in Cells |-> 100 - ws[c]]

\* line 269: np.mean over the Grass cells; nan when there is none
Phi_g(V, li) ==
    LET G == CellsWith(V, GRASS)
    IN  IF G = {} THEN NaN
        ELSE Fin(SumTo([i \in 1 .. Cardinality(G) |-> li[Nth(G, i)]],
                       Cardinality(G)),
                 Cardinality(G))

\* lines 266, 273 for one Bare cell: phi is Phi_g
Peg(V, phi, P, c) ==
    LET n == count(Take(V, get_looped_cell_neighbor_list[c]), SHRUB)
    IN  amin(Divide(phi, n * P.ING), Fin(P.Pemaxg, 1))

\* lines 262, 267, 274 for one Bare cell
Pesh(V, li, P, c) ==
    LET first_ring == get_looped_cell_neighbor_list[c]
        Sh_WS_fr == WS_PFT(Take(V, first_ring), SHRUB, Take(li, first_ring))
    IN  amin(Fin(Sh_WS_fr, 8), Fin(P.Pemaxsh, 1))

\* lines 263-264, 268, 275 for one Bare cell
Petr(V, li, P, c) ==
    LET first_ring == get_looped_cell_neighbor_list[c]
        second_ring == get_second_ring_looped_cell_neighbor_list[c]
        Tr_WS_fr == WS_PFT(Take(V, first_ring), TREE, Take(li, first_ring))
        Tr_WS_sr == WS_PFT(Take(V, second_ring), TREE, Take(li, second_ring))
    IN  amin(Fin(2 * Tr_WS_fr + Tr_WS_sr, 16), Fin(P.Pemaxtr, 1))

\* the three probability arrays of lines 273-275, by cell (0 off the Bare cells)
EstablishmentProbabilities(V, li, P) ==
    LET phi == Phi_g(V, li)
    IN  [c \in Cells |->
            IF V[c] = BARE
            THEN [Peg |-> Peg(V, phi, P, c), Pesh |-> Pesh(V, li, P, c),
                  Petr |-> Petr(V, li, P, c)]
            ELSE [Peg |-> Fin(0, 1), Pesh |-> Fin(0, 1), Petr |-> Fin(0, 1)]]

\* faulty variant: the choice list in the wrong order, [Petr, 0, 0, 0, Pesh, Peg]
Pest_WrongOrder(pe, selected) ==
    IF selected = GRASS THEN pe.Petr
    ELSE IF selected = SHRUBSEEDLING THEN pe.Pesh
    ELSE IF selected = TREESEEDLING THEN pe.Peg
    ELSE Fin(0, 1)

\* line 279: np.choose(Select_PFT_E, [Peg, 0, 0, 0, Pesh, Petr])
Pest(pe, selected) ==
    IF selected = GRASS THEN pe.Peg
    ELSE IF selected = SHRUBSEEDLING THEN pe.Pesh
    ELSE IF selected = TREESEEDLING THEN pe.Petr
    ELSE Fin(0, 1)

\* faulty variant: the Bare cells are visited one by one in ascending order and
\* each sees the labels written for the cells visited before it
RECURSIVE EstablishInPlace(_, _, _, _, _)
EstablishInPlace(V, bare, i, Select_PFT_E, R_Est) ==
    IF i > Cardinality(bare) THEN {}
    ELSE LET c == Nth(bare, i)
             li == LiveIndex(CumWS)
             pe == [Peg |-> Peg(V, Phi_g(V, li), params, c),
                    Pesh |-> Pesh(V, li, params, c),
                    Petr |-> Petr(V, li, params, c)]
             ok == greater_equal(Pest(pe, Select_PFT_E[i]), R_Est[i])
         IN  (IF ok THEN {c} ELSE {})
                 \cup EstablishInPlace(
                          IF ok THEN [V EXCEPT ![c] = Select_PFT_E[i]] ELSE V,
                          bare, i + 1, Select_PFT_E, R_Est)

Establish_OneByOne(V, pe, Select_PFT_E, R_Est) ==
    EstablishInPlace(V, CellsWith(V, BARE), 1, Select_PFT_E, R_Est)

\* lines 255, 276-283: the Bare cells that establish; the i-th Bare cell in
\* ascending order consumes the i-th candidate type and the i-th draw
Establish(V, pe, Select_PFT_E, R_Est) ==
    LET bare == CellsWith(V, BARE)
    IN  {c \in bare :
            LET i == Rank(bare, c)
            IN  greater_equal(Pest(pe[c], Select_PFT_E[i]), R_Est[i])}

\* line 284: established is bare_cells[Establish]
VegTypeAfterEstablishment(V, established, Select_PFT_E) ==
    LET bare == CellsWith(V, BARE)
    IN  [c \in Cells |->
            IF c \in established THEN Select_PFT_E[Rank(bare, c)] ELSE V[c]]

\* faulty variant: the age of an established cell is not reset
AgeAfterEstablishment_NoReset(tp, established) == tp

\* line 285
AgeAfterEstablishment(tp, established) ==
    [c \in Cells |-> IF c \in established THEN 0 ELSE tp[c]]

----------------------------------------------------------------------------
(* update: mortality, lines 288-311 *)

\* faulty variant: the occupied cells are taken from the vegetated flag an
\* earlier call left on the grid, when there is one
PlantCells_FromFlag(V) ==
    IF boolean_vegetated.present
    THEN {c \in Cells : boolean_vegetated.value[c] = 1}
    ELSE {c \in Cells : V[c] # BARE}

\* line 288
PlantCells(V) == {c \in Cells : V[c] # BARE}

\* np.choose(index, choices) raises ValueError for an index outside 0..5
ChooseRaises(V) == \E c \in PlantCells(V) : V[c] \notin 0 .. 5

\* lines 290-292
Theta(P, label) ==
    CASE label = GRASS -> P.ThetaGrass
      [] label = SHRUB -> P.ThetaShrub
      [] label = TREE -> P.ThetaTree
      [] label = SHRUBSEEDLING -> P.ThetaShrubSeedling
      [] label = TREESEEDLING -> P.ThetaTreeSeedling
      [] OTHER -> 0

\* lines 295-297
GrassMaxAge == 200000

tpmax(P, label) ==
    CASE label = GRASS -> GrassMaxAge
      [] label = SHRUB -> P.tpmaxShrub
      [] label = TREE -> P.tpmaxTree
      [] label = SHRUBSEEDLING -> P.tpmaxShrubSeedling
      [] label = TREESEEDLING -> P.tpmaxTreeSeedling
      [] OTHER -> 0

\* lines 303-305
PMb(P, label) ==
    CASE label = GRASS -> P.PmbGrass
      [] label = SHRUB -> P.PmbShrub
      [] label = TREE -> P.PmbTree
      [] label = SHRUBSEEDLING -> P.PmbShrubSeedling
      [] label = TREESEEDLING -> P.PmbTreeSeedling
      [] OTHER -> 0

\* faulty variant: the difference is taken the other way round (Theta - WS)
PMd_Reversed(ws, theta) == IF theta - ws < 0 THEN 0 ELSE theta - ws

\* lines 293-294: drought deficit, hundredths
PMd(ws, theta) == IF ws - theta < 0 THEN 0 ELSE ws - theta

\* lines 298-302: age deficit in units of 1 / (100 * tpmax):
\* (tp - 0.5 tpmax) / (0.5 tpmax) - 1 = 2 (tp - tpmax) / tpmax
PMa(tp, maxage) == IF 2 * tp > maxage THEN 200 * (tp - maxage) ELSE 0

\* line 307
ClampToOne(p) == IF p.n > 100 * p.d THEN Fin(100 * p.d, p.d) ELSE p

\* lines 306-307 for one plant cell
MortalityProbability(P, label, tp, ws) ==
    ClampToOne(Fin((PMd(ws, Theta(P, label)) + PMb(P, label)) * tpmax(P, label)
                       + PMa(tp, tpmax(P, label)),
                   tpmax(P, label)))

PMOf(V, tp, ws, P) ==
    [c \in Cells |-> IF c \in PlantCells(V) /\ V[c] \in 0 .. 5
                     THEN MortalityProbability(P, V[c], tp[c], ws[c])
                     ELSE Fin(0, 1)]

\* faulty variant: a plant dies only when PM exceeds the draw (> for >=)
Mortality_Strict(V, pm, R_Mor) ==
    LET plants == PlantCells(V)
    IN  {c \in plants : pm[c].n > R_Mor[Rank(plants, c)] * pm[c].d}

\* faulty variant: the occupied cells are those of the labels the call found
\* on entry, so a cell established in this call is not evaluated
Mortality_OnEntryLabels(V, pm, R_Mor) ==
    LET plants == PlantCells(VegType)
    IN  {c \in plants : greater_equal(pm[c], R_Mor[Rank(plants, c)])}

\* lines 308-309: the i-th plant cell in ascending order consumes the i-th draw
Mortality(V, pm, R_Mor) ==
    LET plants == PlantCells(V)
    IN  {c \in plants : greater_equal(pm[c], R_Mor[Rank(plants, c)])}

\* faulty variant: dead cells receive the number of plant types instead of BARE
VegTypeAfterMortality_BareAsSix(V, dead) ==
    [c \in Cells |-> IF c \in dead THEN Cardinality(Labels) ELSE V[c]]

\* line 310
VegTypeAfterMortality(V, dead) ==
    [c \in Cells |-> IF c \in dead THEN BARE ELSE V[c]]

\* line 311
AgeAfterMortality(tp, dead) == [c \in Cells |-> IF c \in dead THEN 0 ELSE tp[c]]

\* faulty variant: seedlings are not counted as vegetation
Vegetated_AdultsOnly(V) ==
    [c \in Cells |-> IF V[c] \in {GRASS, SHRUB, TREE} THEN 1 ELSE 0]

\* lines 315-319
Vegetated(V) == [c \in Cells |-> IF V[c] # BARE THEN 1 ELSE 0]

----------------------------------------------------------------------------
(* The operations *)

\* the calls explored: the defaults update(1, True), and a step of no time
\* that leaves the vegetated flag alone
CallArguments ==
    { [time_elapsed |-> 1, Edit_VegCov |-> TRUE],
      [time_elapsed |-> 0, Edit_VegCov |-> FALSE] }

\* line 276: np.random.choice([GRASS, SHRUBSEEDLING, TREESEEDLING], n_bare)
CandidateTypes == {GRASS, SHRUBSEEDLING, TREESEEDLING}

CandidateStreams == {ConstStream(t) : t \in CandidateTypes}

\* the uniform draws explored, hundredths, as pairs of streams <<R_Est, R_Mor>>:
\* all draws 0, all draws 1, establishment favoured and mortality not, and
\* draws that separate the cells by their probabilities
DrawStreams ==
    { <<ConstStream(0), ConstStream(0)>>,
      <<ConstStream(100), ConstStream(100)>>,
      <<ConstStream(0), ConstStream(100)>>,
      <<ConstStream(20), ConstStream(5)>> }

\* VegCA.update(time_elapsed, Edit_VegCov), with the values returned by its
\* three np.random calls
Update ==
    /\ outcome \in {"constructed", "ok", "error"}
    /\ steps < MaxSteps
    /\ \E args \in CallArguments :
       \E time_elapsed \in {args.time_elapsed},
          Edit_VegCov \in {args.Edit_VegCov} :
       \E tpA \in {AdvanceAge(plant__age, time_elapsed)},
          li \in {LiveIndex(CumWS)} :
       \E Vm \in {VegTypeAfterMaturation(VegType, tpA, params)},
          tpm \in {AgeAfterMaturation(VegType, tpA, params)} :
       \E pe \in {EstablishmentProbabilities(Vm, li, params)} :
       \E Select_PFT_E \in CandidateStreams, draws \in DrawStreams :
       \E R_Est \in {draws[1]}, R_Mor \in {draws[2]} :
       \E established \in {Establish(Vm, pe, Select_PFT_E, R_Est)} :
       \E Ve \in {VegTypeAfterEstablishment(Vm, established, Select_PFT_E)},
          tpe \in {AgeAfterEstablishment(tpm, established)} :
       \E pm \in {PMOf(Ve, tpe, CumWS, params)} :
       \E dead \in {Mortality(Ve, pm, R_Mor)} :
       \E Vf \in {VegTypeAfterMortality(Ve, dead)} :
        /\ steps' = steps + 1
        /\ call' = [time_elapsed |-> time_elapsed, Edit_VegCov |-> Edit_VegCov,
                    Select_PFT_E |-> Select_PFT_E, R_Est |-> R_Est,
                    R_Mor |-> R_Mor]
        /\ pre' = [VegType |-> VegType, tp |-> plant__age]
        /\ live_index' = li
        /\ mat' = [VegType |-> Vm, tp |-> tpm]
        /\ est' = [VegType |-> Ve, tp |-> tpe]
        /\ UNCHANGED <<params, CumWS, live_leaf_area_index>>
        /\ IF ChooseRaises(Ve)
           THEN \* line 290 raises: the labels were already written in place
                /\ VegType' = Ve
                /\ outcome' = "error"
                /\ UNCHANGED <<at_cell, plant__age, boolean_vegetated,
                               bare_cells, Established, plant_cells, Mortified,
                               PM>>
           ELSE /\ VegType' = Vf
                /\ plant__age' = AgeAfterMortality(tpe, dead)
                /\ PM' = pm
                /\ boolean_vegetated' =
                       IF Edit_VegCov
                       THEN [present |-> TRUE, value |-> Vegetated(Vf)]
                       ELSE boolean_vegetated
                /\ at_cell' =
                       IF Edit_VegCov
                       THEN at_cell \cup {"vegetation__boolean_vegetated"}
                       ELSE at_cell
                /\ bare_cells' = CellsWith(Vm, BARE)
                /\ Established' = established
                /\ plant_cells' = PlantCells(Ve)
                /\ Mortified' = dead
                /\ outcome' = "ok"

\* the soil moisture component writes a new cumulative water stress field;
\* a run whose constructor raised has ended
SetWaterStress ==
    \E ws \in WaterStressFields :
        /\ outcome # "config_error"
        /\ steps < MaxSteps
        /\ ws # CumWS
        /\ CumWS' = ws
        /\ at_cell' = at_cell \cup {"soil_moisture__water_stress_cumulative"}
        /\ UNCHANGED <<params, VegType, plant__age, live_leaf_area_index,
                       boolean_vegetated, live_index, bare_cells, Established,
                       plant_cells, Mortified, call, pre, mat, est, PM,
                       outcome, steps>>

Next == Update \/ SetWaterStress

Spec == Init /\ [][Next]_vars

----------------------------------------------------------------------------
(* Construction on a grid whose label field holds a value outside 0..5 *)

\* a supplied label field with no zero entry (so it is kept, lines 205-207)
\* and one label that is no plant functional type
InvalidSuppliedFields ==
    { FieldOf(<<BARE, 6, TREE, BARE, SHRUB, BARE, BARE, BARE, BARE>>) }

InitErr ==
    \/ Init
    \/ \E P \in ParamChoices, supplied \in InvalidSuppliedFields :
       \E ages \in AgeDraws(P) :
           Constructed(P, supplied, supplied, ages, Zeros)

SpecErr == InitErr /\ [][Next]_vars

----------------------------------------------------------------------------
(* Construction on a grid that already carries a cumulative water stress    *)
(* field with values outside [0, 1]                                         *)

\* water stress 1.5 in cell 0 and -0.2 in cell 1 (hundredths)
InvalidWaterStressFields ==
    { FieldOf(<<150, -20, 30, 70, 0, 100, 65, 50, 10>>) }

\* a component built with the default keyword arguments on such a grid
InitStress ==
    \E supplied \in SuppliedFields, rnd \in RandomLabelDraws,
       ws \in InvalidWaterStressFields :
    \E ages \in AgeDraws(DefaultParams) :
        /\ ages[1] < DefaultParams.tpmaxTree
        /\ ages[2] < DefaultParams.tpmaxShrub
        /\ Constructed(DefaultParams, supplied, rnd, ages, ws)

SpecStress == InitStress /\ [][Next]_vars

----------------------------------------------------------------------------
(* The constructor as an operation on a grid that has no component yet *)

\* line 14
VALID_METHODS == {"Grid"}

\* lines 22-24: the method name is accepted (no ValueError)
assert_method_is_valid(method) == method \in VALID_METHODS

\* keyword arguments of the constructor calls explored: the defaults, and a
\* method name that is not valid
ConfigChoices == {DefaultParams, [DefaultParams EXCEPT !.method = "Field"]}

\* the fields of the grid the constructor can create or change
GridFields ==
    [at_cell |-> at_cell, VegType |-> VegType, plant__age |-> plant__age,
     CumWS |-> CumWS, live_leaf_area_index |-> live_leaf_area_index,
     boolean_vegetated |-> boolean_vegetated]

\* grids handed to the constructor: a grid without fields, a grid with a
\* label field, a grid with a label field and a water stress field
InitGrid ==
    \E names \in {{}, {"vegetation__plant_functional_type"}, input_var_names} :
    \E supplied \in IF "vegetation__plant_functional_type" \in names
                     THEN SuppliedFields \ {Zeros} ELSE {Zeros},
       ws \in IF "soil_moisture__water_stress_cumulative" \in names
               THEN WaterStressFields ELSE {Zeros} :
        /\ params = DefaultParams
        /\ at_cell = names
        /\ VegType = supplied
        /\ plant__age = Zeros
        /\ CumWS = ws
        /\ live_leaf_area_index = Zeros
        /\ boolean_vegetated = [present |-> FALSE, value |-> Zeros]
        /\ live_index = Zeros
        /\ bare_cells = {}
        /\ Established = {}
        /\ plant_cells = {}
        /\ Mortified = {}
        /\ call = NoCall
        /\ pre = [VegType |-> supplied, tp |-> Zeros]
        /\ mat = [VegType |-> supplied, tp |-> Zeros]
        /\ est = [VegType |-> supplied, tp |-> Zeros]
        /\ PM = [c \in Cells |-> Fin(0, 1)]
        /\ outcome = "grid"
        /\ steps = 0

\* faulty variant: the method is checked after the loops of lines 195-201
FieldsAtMethodError_AfterAddZeros(names) ==
    names \cup input_var_names \cup output_var_names

\* the field names on the grid when line 191 raises: lines 195-201 have not run
FieldsAtMethodError(names) == names

\* VegCA(grid, method=..., ...): lines 170-217
Construct ==
    /\ outcome = "grid"
    /\ \E P \in ConfigChoices, rnd \in RandomLabelDraws :
       \E ages \in AgeDraws(P) :
        IF ~ assert_method_is_valid(P.method)
        THEN \* line 24 raises ValueError
             /\ outcome' = "config_error"
             /\ params' = P
             /\ pre' = GridFields
             /\ at_cell' = FieldsAtMethodError(at_cell)
             /\ UNCHANGED <<VegType, plant__age, CumWS, live_leaf_area_index,
                            boolean_vegetated, live_index, bare_cells,
                            Established, plant_cells, Mortified, call, mat,
                            est, PM, steps>>
        ELSE \E g \in {ConstructedFields(P, VegType, rnd, ages, CumWS)} :
             /\ ages[1] < P.tpmaxTree
             /\ ages[2] < P.tpmaxShrub
             /\ outcome' = "constructed"
             /\ params' = P
             /\ at_cell' = g.at_cell
             /\ VegType' = g.VegType
             /\ plant__age' = g.plant__age
             /\ pre' = [VegType |-> g.VegType, tp |-> g.plant__age]
             /\ mat' = [VegType |-> g.VegType, tp |-> g.plant__age]
             /\ est' = [VegType |-> g.VegType, tp |-> g.plant__age]
             /\ UNCHANGED <<CumWS, live_leaf_area_index, boolean_vegetated,
                            live_index, bare_cells, Established, plant_cells,
                            Mortified, call, PM, steps>>

NextConfig == Construct \/ Update \/ SetWaterStress

SpecConfig == InitGrid /\ [][NextConfig]_vars

----------------------------------------------------------------------------
(* Properties *)

\* an update call has returned normally; pre, mat, est, call, PM and
\* live_index describe that call
Returned == outcome = "ok"

Seedlings == {SHRUBSEEDLING, TREESEEDLING}

\* cells relabelled by the maturation phase of the last call
MaturedCells == {c \in Cells : mat.VegType[c] # pre.VegType[c]}

\* the draw consumed for plant cell c in the mortality phase of the last call
MortalityDraw(c) == call.R_Mor[Rank(plant_cells, c)]

\* C1 (label closure): starting from a grid whose labels are all among the six
\* plant functional types, every label is one of the six after any number of
\* update calls.
C1_LabelClosure == \A c \in Cells : VegType[c] \in Labels

\* an update that matured, established and killed cells has returned
C1_Witness ==
    /\ Returned
    /\ MaturedCells # {}
    /\ Established # {}
    /\ Mortified # {}

AllowedTransitions ==
    {<<BARE, BARE>>, <<BARE, GRASS>>, <<BARE, SHRUBSEEDLING>>,
     <<BARE, TREESEEDLING>>, <<GRASS, GRASS>>, <<GRASS, BARE>>,
     <<SHRUB, SHRUB>>, <<SHRUB, BARE>>, <<TREE, TREE>>, <<TREE, BARE>>,
     <<SHRUBSEEDLING, SHRUBSEEDLING>>, <<SHRUBSEEDLING, SHRUB>>,
     <<SHRUBSEEDLING, BARE>>, <<TREESEEDLING, TREESEEDLING>>,
     <<TREESEEDLING, TREE>>, <<TREESEEDLING, BARE>>}

\* C2 (per-cell state machine): for every cell, the pair (label on entry to an
\* update call, label when it returns) is one of Bare -> Bare, Grass,
\* ShrubSeedling, TreeSeedling; Grass -> Grass, Bare; Shrub -> Shrub, Bare;
\* Tree -> Tree, Bare; ShrubSeedling -> ShrubSeedling, Shrub, Bare;
\* TreeSeedling -> TreeSeedling, Tree, Bare.
C2_StateMachine ==
    Returned =>
        \A c \in Cells : <<pre.VegType[c], VegType[c]>> \in AllowedTransitions

\* one call in which a shrub seedling became a Shrub, a Bare cell became an
\* occupant and an occupant became Bare
C2_Witness ==
    /\ Returned
    /\ \E c \in Cells : pre.VegType[c] = SHRUBSEEDLING /\ VegType[c] = SHRUB
    /\ \E c \in Cells : pre.VegType[c] = BARE /\ VegType[c] # BARE
    /\ \E c \in Cells : pre.VegType[c] \notin {BARE} \cup Seedlings
                        /\ VegType[c] = BARE

\* C3 (age rule): when update(time_elapsed) returns, the stored age of a cell
\* is 0 if the cell matured, established or died in the call, and its age on
\* entry plus time_elapsed otherwise (Bare cells that stay Bare included).
C3_AgeRule ==
    Returned =>
        \A c \in Cells :
            plant__age[c] =
                IF c \in MaturedCells \cup Established \cup Mortified
                THEN 0
                ELSE pre.tp[c] + call.time_elapsed

\* a call with time_elapsed > 0 in which cells matured, established and died,
\* one Bare cell stayed Bare and one plant lived on
C3_Witness ==
    /\ Returned
    /\ call.time_elapsed > 0
    /\ MaturedCells # {}
    /\ Established # {}
    /\ Mortified # {}
    /\ \E c \in Cells : pre.VegType[c] = BARE /\ VegType[c] = BARE
                        /\ plant__age[c] > 0
    /\ \E c \in Cells : VegType[c] = pre.VegType[c] /\ VegType[c] # BARE
                        /\ plant__age[c] > 0

\* C4 (probability clamp): the mortality probability PM of every cell that is
\* occupied at the mortality phase satisfies 0 <= PM <= 1.
C4_ProbabilityClamp ==
    Returned =>
        \A c \in plant_cells : 0 <= PM[c].n /\ PM[c].n <= 100 * PM[c].d

\* the forced scenario of C5 was the last call: tree is the one Tree, with
\* live index 1, every other cell was Bare, Pemaxtr = 1.0, every uniform draw
\* was 0 and every candidate type was TreeSeedling
ForcedTreeScenario(tree) ==
    /\ Returned
    /\ params.Pemaxtr = 100
    /\ pre.VegType[tree] = TREE
    /\ \A c \in Cells \ {tree} : pre.VegType[c] = BARE
    /\ live_index[tree] = 100
    /\ call.Select_PFT_E = ConstStream(TREESEEDLING)
    /\ call.R_Est = ConstStream(0)
    /\ call.R_Mor = ConstStream(0)

\* the Bare cells in the first ring of a cell
AdjacentCells(tree) ==
    {get_looped_cell_neighbor_list[tree][i] :
        i \in DOMAIN get_looped_cell_neighbor_list[tree]} \ {tree}

\* C5 as stated: in the forced scenario every Bare cell adjacent to the Tree is
\* a TreeSeedling of age 0 when the update call returns.
C5_AsStated ==
    \A tree \in Cells :
        ForcedTreeScenario(tree) =>
            \A c \in AdjacentCells(tree) :
                VegType[c] = TREESEEDLING /\ plant__age[c] = 0

\* C5 amended: in the forced scenario every Bare cell adjacent to the Tree is a
\* TreeSeedling of age 0 after the establishment phase; the mortality draw 0
\* then kills it (PM >= 0), so it is Bare with age 0 when the call returns.
C5_ForcedEstablishment ==
    \A tree \in Cells :
        ForcedTreeScenario(tree) =>
            \A c \in AdjacentCells(tree) :
                /\ est.VegType[c] = TREESEEDLING
                /\ est.tp[c] = 0
                /\ c \in Mortified
                /\ VegType[c] = BARE
                /\ plant__age[c] = 0

C5_Witness ==
    \E tree \in Cells :
        /\ ForcedTreeScenario(tree)
        /\ Cardinality(AdjacentCells(tree)) = 8
        /\ Cardinality(Established) = 8

\* the call of C6 was the last call: time_elapsed = 0 and every draw 1
NoOpCall ==
    /\ Returned
    /\ call.time_elapsed = 0
    /\ call.R_Est = ConstStream(100)
    /\ call.R_Mor = ConstStream(100)

\* C6 as stated: update(0) with every uniform draw 1 leaves every label and
\* every age unchanged.
C6_AsStated == NoOpCall => VegType = pre.VegType /\ plant__age = pre.tp

\* a seedling whose stored age already exceeds its cap
OverCap(c) ==
    \/ pre.VegType[c] = SHRUBSEEDLING /\ pre.tp[c] > params.tpmaxShrubSeedling
    \/ pre.VegType[c] = TREESEEDLING /\ pre.tp[c] > params.tpmaxTreeSeedling

\* a Bare cell whose candidate type has establishment probability 1 or more
CertainEstablishment(c) ==
    /\ c \in bare_cells
    /\ LET p == Pest(EstablishmentProbabilities(mat.VegType, live_index,
                                                params)[c],
                     call.Select_PFT_E[Rank(bare_cells, c)])
       IN  p.k = "pinf" \/ (p.k = "fin" /\ p.n >= 100 * p.d)

\* an occupied cell whose mortality probability is 1
CertainDeath(c) == c \in plant_cells /\ PM[c].n >= 100 * PM[c].d

\* C6 amended: update(0) with every uniform draw 1 leaves the label and the age
\* of a cell unchanged unless the cell is a seedling whose stored age already
\* exceeds its cap (it matures), a Bare cell whose candidate type has
\* establishment probability 1 (it establishes) or an occupied cell whose
\* mortality probability is 1 (it dies).
C6_NoOpStep ==
    NoOpCall =>
        \A c \in Cells :
            ~ (OverCap(c) \/ CertainEstablishment(c) \/ CertainDeath(c)) =>
                VegType[c] = pre.VegType[c] /\ plant__age[c] = pre.tp[c]

\* a no-op call on a grid with plants, Bare cells and ages above 0 that left
\* everything as it was
C6_Witness ==
    /\ NoOpCall
    /\ VegType = pre.VegType
    /\ plant__age = pre.tp
    /\ \E c \in Cells : VegType[c] = BARE
    /\ \E c \in Cells : VegType[c] # BARE /\ plant__age[c] > 0

\* C7 (step atomicity on error): when an update call raises, the label field
\* and the age field of the grid are what they were on entry to the call.
C7_StepAtomicity ==
    outcome = "error" => VegType = pre.VegType /\ plant__age = pre.tp

\* C8 (live index output): when an update call returns, the grid field
\* vegetation__live_leaf_area_index holds, for every cell, 1 minus the cell's
\* cumulative water stress as read by the call.
C8_LiveIndexOutput ==
    Returned =>
        \A c \in Cells : live_leaf_area_index[c] = live_index[c]

\* C9 (maturation threshold): in the maturation phase a seedling whose
\* advanced age exceeds its cap becomes the adult form with age 0, a seedling
\* whose advanced age is at most the cap keeps label and advanced age, and no
\* other cell is touched.
C9_MaturationThreshold ==
    Returned =>
        \A c \in Cells :
            LET advanced == pre.tp[c] + call.time_elapsed
                cap == IF pre.VegType[c] = SHRUBSEEDLING
                       THEN params.tpmaxShrubSeedling
                       ELSE params.tpmaxTreeSeedling
                adult == IF pre.VegType[c] = SHRUBSEEDLING THEN SHRUB ELSE TREE
            IN  IF pre.VegType[c] \in Seedlings /\ advanced > cap
                THEN mat.VegType[c] = adult /\ mat.tp[c] = 0
                ELSE mat.VegType[c] = pre.VegType[c] /\ mat.tp[c] = advanced

\* one call in which a seedling above the cap matured and a seedling whose
\* advanced age equals the cap did not
C9_Witness ==
    /\ Returned
    /\ \E c \in Cells : pre.VegType[c] \in Seedlings
                        /\ mat.VegType[c] \in {SHRUB, TREE}
    /\ \E c \in Cells :
           /\ pre.VegType[c] = SHRUBSEEDLING
           /\ pre.tp[c] + call.time_elapsed = params.tpmaxShrubSeedling
           /\ call.time_elapsed > 0
           /\ mat.VegType[c] = SHRUBSEEDLING

\* C10 (mortality decision): a cell occupied at the mortality phase is Bare
\* with age 0 when the call returns if and only if its PM >= its draw r, and
\* otherwise keeps its label and age; a Grass cell with water stress 0,
\* PmbGrass = 0 and age at most half the grass age sentinel has PM = 0 and
\* survives every draw r > 0.
C10_MortalityDecision ==
    Returned =>
        \A c \in plant_cells :
            /\ IF PM[c].n >= MortalityDraw(c) * PM[c].d
               THEN VegType[c] = BARE /\ plant__age[c] = 0
               ELSE VegType[c] = est.VegType[c] /\ VegType[c] # BARE
                    /\ plant__age[c] = est.tp[c]
            /\ ( /\ est.VegType[c] = GRASS
                 /\ live_index[c] = 100
                 /\ params.PmbGrass = 0
                 /\ 2 * est.tp[c] <= GrassMaxAge )
               => /\ PM[c].n = 0
                  /\ (MortalityDraw(c) > 0 => VegType[c] = GRASS)

\* one call in which a Grass cell with PM = 0 survived a draw r > 0, a plant
\* with PM equal to its draw died and a plant with PM below its draw lived
C10_Witness ==
    /\ Returned
    /\ \E c \in plant_cells :
           /\ est.VegType[c] = GRASS /\ PM[c].n = 0
           /\ MortalityDraw(c) > 0 /\ VegType[c] = GRASS
    /\ \E c \in plant_cells : VegType[c] # BARE /\ PM[c].n > 0

\* the cumulative water stress read by the last call (line 254 inverted)
StressRead == [c \in Cells |-> 100 - live_index[c]]

\* lines 239-313 run again as a second run would run them: from the labels V
\* and ages tp, under water stress ws, with the time_elapsed and the draws of
\* call c, consumed in the order candidate types, establishment draws,
\* mortality draws; Vout and tpout are the label and age arrays it leaves
SecondRun(V, tp, ws, P, c, Vout, tpout) ==
    \E tpA \in {AdvanceAge(tp, c.time_elapsed)}, li \in {LiveIndex(ws)} :
    \E Vm \in {VegTypeAfterMaturation(V, tpA, P)},
       tpm \in {AgeAfterMaturation(V, tpA, P)} :
    \E pe \in {EstablishmentProbabilities(Vm, li, P)} :
    \E established \in {Establish(Vm, pe, c.Select_PFT_E, c.R_Est)} :
    \E Ve \in {VegTypeAfterEstablishment(Vm, established, c.Select_PFT_E)},
       tpe \in {AgeAfterEstablishment(tpm, established)} :
    \E pm \in {PMOf(Ve, tpe, ws, P)} :
    \E dead \in {Mortality(Ve, pm, c.R_Mor)} :
        /\ Vout = VegTypeAfterMortality(Ve, dead)
        /\ tpout = AgeAfterMortality(tpe, dead)

GrassMean == Phi_g(mat.VegType, live_index)

\* the Bare cells of the last call with no Shrub in their first ring
UninhibitedCells ==
    {c \in bare_cells :
        count(Take(mat.VegType, get_looped_cell_neighbor_list[c]), SHRUB) = 0}

\* C12 (grass inhibition edge case): for every Bare cell with no first-ring
\* Shrub neighbour the grass establishment probability of the call equals
\* Pemaxg, whatever the grid-wide grass mean is (0 and undefined included).
C12_GrassInhibitionEdge ==
    Returned =>
        \A c \in UninhibitedCells :
            Peg(mat.VegType, GrassMean, params, c) = Fin(params.Pemaxg, 1)

\* C13 (vegetated flag): after an update call made with Edit_VegCov true the
\* field vegetation__boolean_vegetated is 1 in exactly the cells whose final
\* label is not Bare, and 0 in the others.
C13_VegetatedFlag ==
    (Returned /\ call.Edit_VegCov) =>
        /\ boolean_vegetated.present
        /\ \A c \in Cells :
               /\ boolean_vegetated.value[c] \in {0, 1}
               /\ boolean_vegetated.value[c] = 1 <=> VegType[c] # BARE

\* a call with Edit_VegCov true in which a cell established as a seedling and
\* lived, a plant died, and both Bare and occupied cells remain
C13_Witness ==
    /\ Returned
    /\ call.Edit_VegCov
    /\ \E c \in Established : VegType[c] \in Seedlings
    /\ \E c \in Mortified : pre.VegType[c] # BARE
    /\ \E c \in Cells : VegType[c] = BARE /\ boolean_vegetated.value[c] = 0
    /\ \E c \in Cells : VegType[c] = GRASS /\ boolean_vegetated.value[c] = 1

\* the last update call read a cumulative water stress outside [0, 1]
InvalidStressRead ==
    /\ outcome # "constructed"
    /\ \E c \in Cells : StressRead[c] < 0 \/ StressRead[c] > 100

\* C14 (invalid water stress is surfaced): an update call that finds a
\* cumulative water stress value below 0 or above 1 ends in an error and does
\* not complete the step with that value.
C14_InvalidStressSurfaced == InvalidStressRead => outcome = "error"

\* cumulative water stress values (hundredths) a cell is compared under: none,
\* below every threshold, between and at the thresholds, above them, and full
StressLevels == {0, 30, 62, 64, 70, 72, 80, 85, 100}

\* p <= q for two finite probabilities
LessEq(p, q) ==
    IF p.d = q.d THEN p.n <= q.n ELSE p.n * q.d <= q.n * p.d

\* the mortality probability lines 290-307 give plant cell c of the last call
\* when its cumulative water stress is w and all else is as it was
PMUnder(c, w) == MortalityProbability(params, est.VegType[c], est.tp[c], w)

\* C15 (mortality is monotonic in drought): for every occupied cell, with its
\* label and age as they are, the mortality probability under a cumulative
\* water stress w2 is at least the one under any w1 <= w2; the pairs are the
\* stress the call read against every stress level below and above it.
C15_MortalityMonotone ==
    Returned =>
        \A c \in plant_cells, w \in StressLevels :
            /\ w <= StressRead[c] => LessEq(PMUnder(c, w), PM[c])
            /\ StressRead[c] <= w => LessEq(PM[c], PMUnder(c, w))

\* a call in which one plant has a mortality probability strictly above the
\* one it would have under no stress, one plant is stressed below its
\* threshold and has the probability it would have under no stress, and one
\* plant has a negative age term
C15_Witness ==
    /\ Returned
    /\ \E c \in plant_cells :
           /\ StressRead[c] > Theta(params, est.VegType[c])
           /\ ~ LessEq(PM[c], PMUnder(c, 0))
    /\ \E c \in plant_cells :
           /\ StressRead[c] > 0
           /\ StressRead[c] < Theta(params, est.VegType[c])
           /\ PM[c] = PMUnder(c, 0)
    /\ \E c \in plant_cells : PM[c].n < 0

\* C16 (unknown method is a configuration error): a constructor call with a
\* method name other than 'Grid' fails, and the grid is then exactly as it was
\* before the call: no field was created, and labels, ages and the other named
\* fields hold what they held.
C16_UnknownMethod ==
    (outcome # "grid" /\ params.method # "Grid") =>
        /\ outcome = "config_error"
        /\ GridFields = pre

\* the constructor was called with an unknown method on a grid without fields
\* and on a grid that carries a label field
C16_Witness ==
    /\ outcome = "config_error"
    /\ params.method = "Field"
    /\ "plant__age" \notin at_cell
    /\ "vegetation__plant_functional_type" \in at_cell
    /\ VegType # Zeros

\* C17 (mortality runs on the post-establishment state): the cells evaluated
\* for mortality are exactly the cells that are not Bare after the
\* establishment phase of the same call; a cell that established in the call
\* has a mortality probability and a draw, and it ends the call Bare with age
\* 0 when the probability is >= the draw, and with its new label otherwise.
C17_MortalityAfterEstablishment ==
    Returned =>
        /\ plant_cells = {c \in Cells : est.VegType[c] # BARE}
        /\ Mortified \subseteq plant_cells
        /\ \A c \in Established :
               /\ c \in plant_cells
               /\ est.VegType[c] = call.Select_PFT_E[Rank(bare_cells, c)]
               /\ PM[c] = PMUnder(c, StressRead[c])
               /\ IF greater_equal(PM[c], MortalityDraw(c))
                  THEN c \in Mortified /\ VegType[c] = BARE
                       /\ plant__age[c] = 0
                  ELSE c \notin Mortified /\ VegType[c] = est.VegType[c]

\* a call in which one cell established and died, another established and
\* lived, and a plant that was there on entry was evaluated as well
C17_Witness ==
    /\ Returned
    /\ \E c \in Established : c \in Mortified
    /\ \E c \in Established : VegType[c] # BARE
    /\ \E c \in plant_cells : pre.VegType[c] # BARE

\* the candidate type and the draw consumed for Bare cell c in the last call
Candidate(c) == call.Select_PFT_E[Rank(bare_cells, c)]

EstablishmentDraw(c) == call.R_Est[Rank(bare_cells, c)]

\* C18 (establishment uses one label snapshot): the Bare cells, the neighbour
\* aggregates and the grass mean of a call are those of the labels after
\* maturation; a Bare cell establishes exactly when the probability of its
\* candidate type under that snapshot is >= its draw, and then carries its
\* candidate type, whatever the other Bare cells do in the same call.
C18_EstablishmentSnapshot ==
    Returned =>
        /\ bare_cells = CellsWith(mat.VegType, BARE)
        /\ \E pe \in {EstablishmentProbabilities(mat.VegType, live_index,
                                                 params)} :
           \A c \in bare_cells :
               /\ c \in Established <=>
                      greater_equal(Pest(pe[c], Candidate(c)),
                                    EstablishmentDraw(c))
               /\ est.VegType[c] =
                      IF c \in Established THEN Candidate(c) ELSE BARE

\* a call under uneven water stress in which a Bare cell became Grass, so
\* that the grass mean over the labels being written is below the one of the
\* snapshot, while a later Bare cell with Shrub neighbours had Grass as its
\* candidate
C18_Witness ==
    /\ Returned
    /\ \E c \in Established, d \in bare_cells :
           /\ c < d
           /\ est.VegType[c] = GRASS
           /\ Candidate(d) = GRASS
           /\ d \notin UninhibitedCells
           /\ GrassMean.k = "fin"
           /\ ~ LessEq(GrassMean, Phi_g(est.VegType, live_index))

\* the seedling cap of a label
SeedlingCap(label) ==
    IF label = SHRUBSEEDLING THEN params.tpmaxShrubSeedling
    ELSE params.tpmaxTreeSeedling

\* C19 (seedling age bound): when an update call with time_elapsed >= 0
\* returns, every cell labeled ShrubSeedling has stored age at most
\* tpmaxShrubSeedling and every cell labeled TreeSeedling has stored age at
\* most tpmaxTreeSeedling, whatever the labels and ages were on entry.
C19_SeedlingAgeBound ==
    (Returned /\ call.time_elapsed >= 0) =>
        \A c \in Cells :
            VegType[c] \in Seedlings => plant__age[c] <= SeedlingCap(VegType[c])

\* a call that found a seedling above its cap, and returned with a seedling
\* that reached its cap in the call and a seedling established in the call
C19_Witness ==
    /\ Returned
    /\ \E c \in Cells : OverCap(c)
    /\ \E c \in Cells :
           /\ VegType[c] \in Seedlings
           /\ call.time_elapsed > 0
           /\ plant__age[c] = SeedlingCap(VegType[c])
    /\ \E c \in Established : VegType[c] \in Seedlings

\* C20 (grass extinction is absorbing): when no cell is labeled Grass at the
\* start of the establishment phase of an update call, no Bare cell
\* establishes as Grass in that call, whatever the candidate types and the
\* draws; hence a grid without Grass on entry to a call is without Grass when
\* the call returns, and stays so over every later call.
C20_GrassExtinction ==
    Returned =>
        /\ CellsWith(mat.VegType, GRASS) = {} =>
               /\ GrassMean = NaN
               /\ \A c \in Established : est.VegType[c] # GRASS
        /\ CellsWith(pre.VegType, GRASS) = {} => CellsWith(VegType, GRASS) = {}

\* a second call on a grid on which no cell is labeled Grass, with Bare
\* cells that have Shrub neighbours, every candidate type Grass and every
\* draw 0
C20_Witness ==
    /\ Returned
    /\ steps = 2
    /\ CellsWith(pre.VegType, GRASS) = {}
    /\ bare_cells # {}
    /\ UninhibitedCells = {}
    /\ call.Select_PFT_E = ConstStream(GRASS)
    /\ call.R_Est = ConstStream(0)

====
